---- MODULE Spec2Model ----
(***************************************************************************)
(* Top-K ranking search of skin-lookup (src/utils/skin_matcher.py) with    *)
(* the scoring it calls (src/utils/image_matcher.py) and the algorithm     *)
(* registry (src/algorithms/), the copying of the matches found            *)
(* (copy_skin_files), the render converter (convert_render_to_skin), the   *)
(* folder copy (copy_and_rename_to_png) and the window that starts and     *)
(* cancels the search and the folder copy (src/gui_main.py).               *)
(*                                                                         *)
(* Floating-point distances are fixed-point integers in units of 1/Unit;   *)
(* weights are integers in percent.  An image is the row-major sequence of *)
(* its RGB pixels; a file that cannot be decoded has no pixels.            *)
(***************************************************************************)
EXTENDS Integers, Sequences, FiniteSets, TLC

\* ------------------------------------------------------------------ bounds
MaxFiles == 3
MaxTopN == 3

\* ------------------------------------------------------- fixed-point units
Unit == 100 * 100
Percent == 10 * 10

\* Python's None, for the string-valued slot of the returned tuple
None == "None"

\* ---------------------------------------------------------- test pictures
Red == <<255, 0, 0>>
Blue == <<0, 0, 255>>

\* a file whose bytes are not an image (zero-byte, text, truncated)
Corrupt == <<>>

RedImage == <<Red, Red>>
MixedImage == <<Red, Blue>>
BlueImage == <<Blue, Blue>>

Images == {RedImage, MixedImage, BlueImage}
Contents == Images \cup {Corrupt}

\* ------------------------------------------------------ integer arithmetic
Min(a, b) == IF a <= b THEN a ELSE b
Max(a, b) == IF a >= b THEN a ELSE b
Abs(a) == IF a < 0 THEN -a ELSE a

RECURSIVE SumSeq(_)
SumSeq(s) == IF s = <<>> THEN 0 ELSE Head(s) + SumSeq(Tail(s))

RECURSIVE SumOver(_, _)
SumOver(S, f) ==
    IF S = {} THEN 0
    ELSE LET x == CHOOSE y \in S : TRUE IN f[x] + SumOver(S \ {x}, f)

RECURSIVE SqrtSearch(_, _, _)
SqrtSearch(n, lo, hi) ==
    IF lo >= hi THEN lo
    ELSE LET mid == (lo + hi + 1) \div 2
         IN IF mid * mid <= n THEN SqrtSearch(n, mid, hi)
            ELSE SqrtSearch(n, lo, mid - 1)

\* floor of the square root (np.sqrt / np.linalg.norm on the fixed-point grid)
ISqrt(n) == SqrtSearch(n, 0, Min(n, 46340))

RECURSIVE Pow2(_)
Pow2(n) == IF n = 0 THEN 1 ELSE 2 * Pow2(n - 1)

RECURSIVE BitOr(_, _)
BitOr(a, b) ==
    IF a = 0 THEN b
    ELSE IF b = 0 THEN a
    ELSE Max(a % 2, b % 2) + 2 * BitOr(a \div 2, b \div 2)

\* numpy left shift of a uint8 array by a Python int: the result stays uint8
ShlU8(x, n) == IF n >= 8 THEN 0 ELSE (x * Pow2(n)) % 256
Shr(x, n) == x \div Pow2(n)

\* ------------------------------------------------- pixel feature primitives
\* image_matcher.extract_dominant_colors_fast: the quantized pixel codes
Quantize(v) == (v \div 16) * 16

PixelCode(px) ==
    BitOr(BitOr(ShlU8(Quantize(px[1]), 16), ShlU8(Quantize(px[2]), 8)),
          Quantize(px[3]))

DecodeColor(code) ==
    <<Shr(code, 16) % 256, Shr(code, 8) % 256, code % 256>>

\* the unique codes of an image with their pixel counts, at most n_colors of
\* them (the most frequent ones)
CodeCounts(img) ==
    LET codes == {PixelCode(img[i]) : i \in DOMAIN img}
    IN [c \in codes |-> Cardinality({i \in DOMAIN img : PixelCode(img[i]) = c})]

extract_dominant_colors_fast(img, n_colors) ==
    LET cc == CodeCounts(img)
        kept == IF Cardinality(DOMAIN cc) <= n_colors THEN DOMAIN cc
                ELSE CHOOSE S \in SUBSET (DOMAIN cc) :
                        /\ Cardinality(S) = n_colors
                        /\ \A a \in S, b \in (DOMAIN cc) \ S : cc[a] >= cc[b]
    IN [colors |-> {DecodeColor(c) : c \in kept},
        counts |-> [col \in {DecodeColor(c) : c \in kept} |->
                       cc[CHOOSE c \in kept : DecodeColor(c) = col]]]

\* Euclidean RGB distance in hundredths
ColorDist(c1, c2) ==
    ISqrt(((c1[1] - c2[1]) * (c1[1] - c2[1]) + (c1[2] - c2[2]) * (c1[2] - c2[2])
           + (c1[3] - c2[3]) * (c1[3] - c2[3])) * Unit)

MinDist(c1, colors2) ==
    LET ds == {ColorDist(c1, c2) : c2 \in colors2}
    IN CHOOSE d \in ds : \A e \in ds : d <= e

\* 441.67 and 255 * sqrt(3), in hundredths
MaxColorDist == 44167

\* image_matcher.color_palette_distance_fast (weights are counts / total)
color_palette_distance_fast(p1, p2) ==
    IF p1.colors = {} \/ p2.colors = {} THEN Unit
    ELSE LET total == SumOver(p1.colors, p1.counts)
             weighted == SumOver(p1.colors,
                             [c \in p1.colors |-> p1.counts[c] * MinDist(c, p2.colors)])
         IN Min((weighted * Unit) \div (total * MaxColorDist), Unit)

\* float('inf'): above every distance
Infinity == 2147483647

\* feature_extractors.color_palette_distance_fast: no empty check, no clamp.
\* An empty first palette leaves total_distance at 0; an empty second one
\* leaves every min_dist at float('inf')
fe_color_palette_distance_fast(p1, p2) ==
    IF p1.colors = {} THEN 0
    ELSE IF p2.colors = {} THEN Infinity
    ELSE LET total == SumOver(p1.colors, p1.counts)
             weighted == SumOver(p1.colors,
                             [c \in p1.colors |-> p1.counts[c] * MinDist(c, p2.colors)])
         IN (weighted * Unit) \div (total * MaxColorDist)

\* np.histogramdd over the RGB cube with `bins' bins per channel on [0, 256)
HistBin(px, bins) ==
    <<(px[1] * bins) \div 256, (px[2] * bins) \div 256, (px[3] * bins) \div 256>>

Histogram(img, bins) ==
    LET keys == {HistBin(img[i], bins) : i \in DOMAIN img}
    IN [k \in keys |-> Cardinality({i \in DOMAIN img : HistBin(img[i], bins) = k})]

\* sum((h1 - h2)^2 / (h1 + h2 + 1e-10)) / 2 with h = count / pixels
hist_distance(img1, img2, bins) ==
    LET h1 == Histogram(img1, bins)
        h2 == Histogram(img2, bins)
        n1 == Len(img1)
        n2 == Len(img2)
        keys == (DOMAIN h1) \cup (DOMAIN h2)
        a(k) == IF k \in DOMAIN h1 THEN h1[k] * n2 ELSE 0
        b(k) == IF k \in DOMAIN h2 THEN h2[k] * n1 ELSE 0
        num == SumOver(keys, [k \in keys |->
                   ((a(k) - b(k)) * (a(k) - b(k)) * Unit) \div (a(k) + b(k))])
    IN num \div (2 * n1 * n2)

\* PIL convert('L')
Luma(px) == (299 * px[1] + 587 * px[2] + 114 * px[3]) \div 1000

\* imagehash.average_hash(img, hash_size=8): one bit per cell of the 8x8
\* thumbnail, set where the cell is brighter than the mean; each pixel of
\* the picture covers HashBits / Len(img) cells of the thumbnail
HashBits == 8 * 8

average_hash(img) ==
    LET total == SumSeq([i \in DOMAIN img |-> Luma(img[i])])
    IN [i \in DOMAIN img |-> Luma(img[i]) * Len(img) > total]

\* ImageHash.__sub__: the Hamming distance
HashSub(h1, h2) ==
    Cardinality({i \in DOMAIN h1 : h1[i] # h2[i]}) * (HashBits \div Len(h1))

hash_distance(img1, img2) ==
    (HashSub(average_hash(img1), average_hash(img2)) * Unit) \div HashBits

\* ------------------------------------------------------ scoring: the search
\* image_matcher.ALGORITHM_WEIGHTS, in percent
ALGORITHM_WEIGHTS ==
    [balanced |-> [dominant_colors |-> 60, color_histogram |-> 35, perceptual_hash |-> 5],
     skin_optimized |-> [texture_pattern |-> 40, dominant_colors |-> 35,
                         dimension_match |-> 15, color_histogram |-> 10],
     deep_features |-> [edge_similarity |-> 50, ssim |-> 30, dominant_colors |-> 20],
     color_distribution |-> [color_histogram |-> 70, dominant_colors |-> 30],
     fast |-> [color_histogram |-> 80, perceptual_hash |-> 20],
     ai_perceptual |-> [deep_features |-> 50, dominant_colors |-> 35, color_histogram |-> 15],
     ai_mobile |-> [mobile_features |-> 75, dominant_colors |-> 15,
                    color_histogram |-> 7, perceptual_hash |-> 3]]

\* the weights property of the registered algorithm classes, in percent
\* (ColorFrequencyAlgorithm declares 100.0)
RegisteredWeights ==
    [render_to_skin |-> [visible_regions |-> 100],
     render_match |-> [color_palette |-> 70, spatial_pattern |-> 30],
     balanced |-> [dominant_colors |-> 60, color_histogram |-> 35, perceptual_hash |-> 5],
     color_frequency |-> [color_frequency |-> 100 * Percent]]

\* names image_matcher.calculate_similarity has a branch for, among the names
\* the search is run with here
MatcherNames == {"balanced", "color_distribution", "fast"}

\* names registered by AlgorithmRegistry._register_default_algorithms
RegisteredNames == {"render_to_skin", "render_match", "balanced", "color_frequency"}

\* a name that is in neither table
UnknownName == "no_such_algorithm"

AlgorithmNames == MatcherNames \cup RegisteredNames \cup {UnknownName}

\* image_matcher.get_image_features: None for a file PIL cannot open, else a
\* bundle tagged with the algorithm; the per-algorithm fields are functions
\* of the decoded pixels and are computed where the scoring reads them
get_image_features(path, content, algorithm) ==
    IF content = Corrupt THEN <<>>
    ELSE <<[algorithm |-> algorithm, path |-> path, img |-> content]>>

\* weight * distance, weight in percent
W(w, d) == (w * d) \div Percent

\* img.size of a test picture: its pixels lie in one row
Size(img) == <<Len(img), 1>>

is_minecraft_skin_texture(img) == Size(img) \in {<<64, 64>>, <<64, 32>>}

\* the block variances; [0] for a picture under 8 x 8, as every test picture
extract_texture_pattern(img) ==
    IF Size(img)[1] < 8 \/ Size(img)[2] < 8 THEN <<0>>
    ELSE [i \in 1..((Size(img)[1] \div 8) * (Size(img)[2] \div 8)) |-> 0]

\* extract_edge_features without cv2: the share of the FIND_EDGES output
\* above 50; the filter copies the border, which is all of a one-row picture
edge_density(img) ==
    (Cardinality({i \in DOMAIN img : Luma(img[i]) > 50}) * Unit) \div Len(img)

\* calculate_ssim_similarity without scikit-image: min(mse / 10000, 1) of the
\* grey levels
calculate_ssim_similarity(img1, img2) ==
    LET mse == SumSeq([i \in DOMAIN img1 |->
                   (Luma(img1[i]) - Luma(img2[i])) * (Luma(img1[i]) - Luma(img2[i]))])
               \div Len(img1)
    IN Min(mse, Unit)

\* extract_ai_features / extract_mobile_features: the network's unit vector
\* for a picture, in hundredths
Embedding(img) ==
    CASE img = RedImage -> <<100, 0>>
      [] img = BlueImage -> <<0, 100>>
      [] OTHER -> <<60, 80>>

\* calculate_ai_similarity: the cosine distance, 1.0 without a vector
calculate_ai_similarity(features1, features2) ==
    IF features1 = <<>> \/ features2 = <<>> THEN Unit
    ELSE LET similarity == features1[1][1] * features2[1][1]
                           + features1[1][2] * features2[1][2]
         IN Max(0, Min((Unit - similarity) \div 2, Unit))

\* mutant: a bundle is marked as having its embedding whatever happened
with_embedding_always_available(features, TORCH_AVAILABLE, extracted) ==
    LET emb == IF TORCH_AVAILABLE /\ extracted
               THEN <<Embedding(features[1].img)>> ELSE <<>>
    IN IF features[1].algorithm = "ai_perceptual"
       THEN <<features[1] @@ [ai_features |-> emb, ai_available |-> TRUE]>>
       ELSE IF features[1].algorithm = "ai_mobile"
       THEN <<features[1] @@ [mobile_features |-> emb, mobile_available |-> TRUE]>>
       ELSE features

\* get_image_features, lines 399-415: the embedding fields of an ai bundle;
\* extract_*_features returns None without torch or when anything in it raises
with_embedding(features, TORCH_AVAILABLE, extracted) ==
    LET emb == IF TORCH_AVAILABLE /\ extracted
               THEN <<Embedding(features[1].img)>> ELSE <<>>
    IN IF features[1].algorithm = "ai_perceptual"
       THEN <<features[1] @@ [ai_features |-> emb, ai_available |-> emb # <<>>]>>
       ELSE IF features[1].algorithm = "ai_mobile"
       THEN <<features[1] @@ [mobile_features |-> emb, mobile_available |-> emb # <<>>]>>
       ELSE features

\* image_matcher.calculate_similarity: (combined_distance, metrics)
calculate_similarity(target_features, candidate_features, algorithm_arg) ==
    LET algorithm == target_features.algorithm
        weights == IF algorithm \in DOMAIN ALGORITHM_WEIGHTS
                   THEN ALGORITHM_WEIGHTS[algorithm]
                   ELSE ALGORITHM_WEIGHTS["balanced"]
        t == target_features.img
        c == candidate_features.img
        hash_d == hash_distance(t, c)
        color_d == color_palette_distance_fast(extract_dominant_colors_fast(t, 12),
                                               extract_dominant_colors_fast(c, 12))
    IN  IF algorithm = "balanced" THEN
            LET hist_d == hist_distance(t, c, 24)
                combined == W(weights.perceptual_hash, hash_d)
                            + W(weights.color_histogram, hist_d)
                            + W(weights.dominant_colors, color_d)
            IN [distance |-> combined,
                metrics |-> {<<"hash_dist", (hash_d * HashBits) \div Unit>>, <<"hist_dist", hist_d>>,
                             <<"color_dist", color_d>>, <<"combined", combined>>}]
        ELSE IF algorithm = "color_distribution" THEN
            LET hist_d == hist_distance(t, c, 24)
                combined == W(weights.color_histogram, hist_d)
                            + W(weights.dominant_colors, color_d)
            IN [distance |-> combined,
                metrics |-> {<<"hist_dist", hist_d>>, <<"color_dist", color_d>>,
                             <<"combined", combined>>}]
        ELSE IF algorithm = "fast" THEN
            LET hist_d == hist_distance(t, c, 16)
                combined == W(weights.perceptual_hash, hash_d)
                            + W(weights.color_histogram, hist_d)
            IN [distance |-> combined,
                metrics |-> {<<"hash_dist", (hash_d * HashBits) \div Unit>>, <<"hist_dist", hist_d>>,
                             <<"combined", combined>>}]
        ELSE IF algorithm = "skin_optimized" THEN
            LET dim_d == IF is_minecraft_skin_texture(c) THEN 0 ELSE Unit \div 2
                pattern1 == extract_texture_pattern(t)
                pattern2 == extract_texture_pattern(c)
                min_len == Min(Len(pattern1), Len(pattern2))
                texture_d == (SumSeq([i \in 1..min_len |-> Abs(pattern1[i] - pattern2[i])])
                                 * Unit) \div (min_len * 100)
                \* no histogram is extracted for skin_optimized: hist_distance = 0.5
                hist_d == Unit \div 2
                combined == W(weights.texture_pattern, Min(texture_d, Unit))
                            + W(weights.dominant_colors, color_d)
                            + W(weights.dimension_match, dim_d)
                            + W(weights.color_histogram, hist_d)
            IN [distance |-> combined,
                metrics |-> {<<"texture_dist", texture_d>>, <<"color_dist", color_d>>,
                             <<"dim_match", Unit - dim_d>>, <<"combined", combined>>}]
        ELSE IF algorithm = "deep_features" THEN
            LET ssim_d == calculate_ssim_similarity(t, c)
                edge_d == Abs(edge_density(t) - edge_density(c))
                combined == W(weights.edge_similarity, edge_d) + W(weights.ssim, ssim_d)
                            + W(weights.dominant_colors, color_d)
            IN [distance |-> combined,
                metrics |-> {<<"edge_dist", edge_d>>, <<"ssim_dist", ssim_d>>,
                             <<"color_dist", color_d>>, <<"combined", combined>>}]
        ELSE IF algorithm = "ai_perceptual" THEN
            LET hist_d == hist_distance(t, c, 24)
            IN  IF target_features.ai_available /\ candidate_features.ai_available THEN
                    LET ai_d == calculate_ai_similarity(target_features.ai_features,
                                                        candidate_features.ai_features)
                        combined == W(weights.deep_features, W(70, ai_d) + W(30, hash_d))
                                    + W(weights.dominant_colors, color_d)
                                    + W(weights.color_histogram, hist_d)
                    IN [distance |-> combined,
                        metrics |-> {<<"ai_dist", ai_d>>,
                                     <<"hash_dist", (hash_d * HashBits) \div Unit>>,
                                     <<"color_dist", color_d>>, <<"hist_dist", hist_d>>,
                                     <<"combined", combined>>}]
                ELSE
                    LET combined == W(60, color_d) + W(40, hist_d)
                    IN [distance |-> combined,
                        metrics |-> {<<"color_dist", color_d>>, <<"hist_dist", hist_d>>,
                                     <<"ai_unavailable", TRUE>>, <<"combined", combined>>}]
        ELSE IF algorithm = "ai_mobile" THEN
            LET hist_d == hist_distance(t, c, 24)
            IN  IF target_features.mobile_available /\ candidate_features.mobile_available THEN
                    LET mobile_d == calculate_ai_similarity(target_features.mobile_features,
                                                            candidate_features.mobile_features)
                        combined == W(weights.mobile_features, mobile_d)
                                    + W(weights.dominant_colors, color_d)
                                    + W(weights.color_histogram, hist_d)
                                    + W(weights.perceptual_hash, hash_d)
                    IN [distance |-> combined,
                        metrics |-> {<<"mobile_dist", mobile_d>>, <<"color_dist", color_d>>,
                                     <<"hist_dist", hist_d>>,
                                     <<"hash_dist", (hash_d * HashBits) \div Unit>>,
                                     <<"combined", combined>>}]
                ELSE
                    LET combined == W(60, color_d) + W(40, hist_d)
                    IN [distance |-> combined,
                        metrics |-> {<<"color_dist", color_d>>, <<"hist_dist", hist_d>>,
                                     <<"mobile_unavailable", TRUE>>, <<"combined", combined>>}]
        ELSE \* no branch taken: combined_distance = 0.0, metrics = {}
            [distance |-> 0, metrics |-> {}]

\* ---------------------------------------------------- scoring: the registry
\* RenderToSkinAlgorithm.calculate_similarity: root mean square difference of
\* the visible-region values / 255 (every pixel of a test picture is visible)
RenderToSkinSimilarity(t, c) ==
    LET sq == SumSeq([i \in DOMAIN t |->
                 (t[i][1] - c[i][1]) * (t[i][1] - c[i][1])
                 + (t[i][2] - c[i][2]) * (t[i][2] - c[i][2])
                 + (t[i][3] - c[i][3]) * (t[i][3] - c[i][3])])
        \* RGBA: the alpha values are equal, four values per pixel
        \* the root mean square in tenths, then / 255
        pixel_d == (ISqrt((sq * Percent) \div (4 * Len(t))) * (Unit \div 10)) \div 255
    IN [distance |-> W(100, pixel_d),
        metrics |-> {<<"pixel_dist", pixel_d>>, <<"combined", W(100, pixel_d)>>}]

\* np.linalg.norm of the spatial vector, in tenths
SpatialNorm(v) == ISqrt(SumSeq([i \in DOMAIN v |-> v[i] * v[i]]) * Percent)

\* extract_render_features 'spatial': the average colour of each grid cell
\* (each pixel of a test picture is one cell)
Spatial(img) == [i \in 1..(3 * Len(img)) |-> img[((i - 1) \div 3) + 1][((i - 1) % 3) + 1]]

\* RenderMatchAlgorithm.calculate_similarity
RenderMatchSimilarity(t, c) ==
    LET palette_d == fe_color_palette_distance_fast(extract_dominant_colors_fast(t, 24),
                                                    extract_dominant_colors_fast(c, 24))
        s1 == Spatial(t)
        s2 == Spatial(c)
        diff == [i \in DOMAIN s1 |-> s1[i] - s2[i]]
        denom == SpatialNorm(s1) + SpatialNorm(s2)
        spatial_d == IF denom = 0 THEN 0 ELSE (SpatialNorm(diff) * Unit) \div denom
        combined == W(70, palette_d) + W(30, spatial_d)
    IN [distance |-> combined,
        metrics |-> {<<"palette_dist", palette_d>>, <<"spatial_dist", spatial_d>>,
                     <<"combined", combined>>}]

\* BalancedAlgorithm.calculate_similarity
BalancedSimilarity(t, c) ==
    LET hash_d == hash_distance(t, c)
        color_d == fe_color_palette_distance_fast(extract_dominant_colors_fast(t, 12),
                                                  extract_dominant_colors_fast(c, 12))
        hist_d == hist_distance(t, c, 24)
        combined == W(60, color_d) + W(35, hist_d) + W(5, hash_d)
    IN [distance |-> combined,
        metrics |-> {<<"hash_dist", (hash_d * HashBits) \div Unit>>, <<"color_dist", color_d>>,
                     <<"hist_dist", hist_d>>, <<"combined", combined>>}]

\* ColorFrequencyAlgorithm.extract_features: exact colour -> pixel count
ColorFrequency(img) ==
    LET cols == {img[i] : i \in DOMAIN img}
    IN [col \in cols |-> Cardinality({i \in DOMAIN img : img[i] = col})]

\* ColorFrequencyAlgorithm.calculate_similarity
ColorFrequencySimilarity(t, c) ==
    LET f1 == ColorFrequency(t)
        f2 == ColorFrequency(c)
        all_colors == (DOMAIN f1) \cup (DOMAIN f2)
        a(k) == IF k \in DOMAIN f1 THEN f1[k] * Len(c) ELSE 0
        b(k) == IF k \in DOMAIN f2 THEN f2[k] * Len(t) ELSE 0
        total_diff == SumOver(all_colors, [k \in all_colors |-> Abs(a(k) - b(k))])
        distance == Max(0, Min(Unit, (total_diff * Unit) \div (2 * Len(t) * Len(c))))
    IN [distance |-> distance,
        metrics |-> {<<"color_freq_distance", distance>>,
                     <<"unique_colors_1", Cardinality(DOMAIN f1)>>,
                     <<"unique_colors_2", Cardinality(DOMAIN f2)>>,
                     <<"color_overlap", Cardinality((DOMAIN f1) \cap (DOMAIN f2))>>}]

\* AlgorithmRegistry after _register_default_algorithms: name -> the
\* registered algorithm's calculate_similarity on two pictures
RegistrySimilarity(name, t, c) ==
    CASE name = "render_to_skin" -> RenderToSkinSimilarity(t, c)
      [] name = "render_match" -> RenderMatchSimilarity(t, c)
      [] name = "balanced" -> BalancedSimilarity(t, c)
      [] name = "color_frequency" -> ColorFrequencySimilarity(t, c)

\* ------------------------------------------------------------ list helpers
\* Python's Optional: None is <<>>, a value v is <<v>>
NoneValue == <<>>
Some(v) == <<v>>

\* mutant: keeps the last n entries, s[-n:]
SliceKeepsLast(s, n) ==
    IF n >= 1 THEN SubSeq(s, Max(Len(s) - n, 0) + 1, Len(s)) ELSE <<>>

\* mutant: truncates one entry too late, s[:n + 1]
SliceOffByOne(s, n) ==
    IF n + 1 >= 0 THEN SubSeq(s, 1, Min(n + 1, Len(s)))
    ELSE SubSeq(s, 1, Max(Len(s) + n + 1, 0))

\* s[:n] with Python's meaning of a negative n
Slice(s, n) ==
    IF n >= 0 THEN SubSeq(s, 1, Min(n, Len(s)))
    ELSE SubSeq(s, 1, Max(Len(s) + n, 0))

\* mutant: e goes before the elements of a sorted s whose distance equals e's
InsertBeforeEqual(s, e) ==
    LET k == Cardinality({i \in DOMAIN s : s[i].distance < e.distance})
    IN SubSeq(s, 1, k) \o <<e>> \o SubSeq(s, k + 1, Len(s))

\* insert e after every element whose distance is <= e's (stable)
RECURSIVE InsertStable(_, _)
InsertStable(s, e) ==
    IF s = <<>> THEN <<e>>
    ELSE IF Head(s).distance <= e.distance THEN <<Head(s)>> \o InsertStable(Tail(s), e)
    ELSE <<e>> \o s

\* mutant: the list is left in insertion order
SortOmitted(s) == s

\* list.sort(key=lambda x: x[0]): a stable sort by distance
RECURSIVE SortByDistance(_)
SortByDistance(s) ==
    IF s = <<>> THEN <<>>
    ELSE InsertStable(SortByDistance(SubSeq(s, 1, Len(s) - 1)), s[Len(s)])

\* the scores of the search for every pair of test pictures, computed once
\* (ai_perceptual as on an installation without torch: no embedding)
SimilarityTable ==
    [a \in AlgorithmNames \cup {"ai_perceptual"} |-> [t \in Images |-> [c \in Images |->
        calculate_similarity(with_embedding(get_image_features(0, t, a), FALSE, FALSE)[1],
                             with_embedding(get_image_features(0, c, a), FALSE, FALSE)[1], a)]]]

\* ------------------------------------------------------------------- state
VARIABLES
    algorithm,          \* argument: algorithm name
    top_n,              \* argument: K
    target,             \* content of the file at target_image_path
    root_kind,          \* search_directory is a directory, a file, or missing
    tree,               \* the files under search_directory in os.walk order
    progress_callback,  \* argument given (TRUE) or None
    cancel_check,       \* argument given (TRUE) or None
    should_cancel,      \* the flag the cancel_check of the GUI reads
    pc,                 \* "start", "loop", "done" (returned), "raised"
    exc,                \* the exception that left find_matching_skins, or None
    target_features,
    all_files,
    total_files,
    idx,                \* candidates the loop has gone through
    top_matches,
    processed_files,
    skipped_files,
    scored,             \* history: every (distance, path) the loop computed
    reports,            \* the (current, total) of every progress_callback call
    ret                 \* the returned tuple (matches, error)

vars == <<algorithm, top_n, target, root_kind, tree, progress_callback,
          cancel_check, should_cancel, pc, exc, target_features, all_files,
          total_files, idx, top_matches, processed_files, skipped_files,
          scored, reports, ret>>

args == <<algorithm, top_n, target, root_kind, tree, progress_callback, cancel_check>>

locals == <<target_features, all_files, total_files, idx, top_matches,
            processed_files, skipped_files, scored>>

\* the other components of the program; each is exercised by a specification
\* of its own, in which the rest stay as they are before anything is called
VARIABLES
    walk_query,         \* two searches with one query: target, top_n, algorithm
    walks,              \* the two orders in which os.walk yields the same files
    walk_idx,           \* candidates each of the two loops has gone through
    walk_matches,       \* top_matches of each of the two searches
    matches,            \* copy_skin_files argument: the match list
    clear_existing,     \* copy_skin_files argument
    output_directory,   \* the entries of the output directory
    copy_pc,            \* "start", "copy", "done"
    copy_i,             \* matches the copy loop has gone through
    copied_files,       \* copy_skin_files' return value
    sc_call,            \* a scoring call and its arguments
    sc_ret,             \* what the scoring call returned
    registry,           \* AlgorithmRegistry._algorithms of the global _registry
    all_copy,           \* a dict handed out by get_all, as its caller left it
    registrations,      \* register_algorithm calls made after start-up
    render,             \* the converter tab's input and output paths
    conv_pc,            \* "idle", "error", "saved"
    skin,               \* the atlas convert_render_to_skin returned
    merge,              \* a copy_and_rename_to_png call: its locals, files written
    gui                 \* SkinCopierGUI: its flags, buttons and two workers

walkVars == <<walk_query, walks, walk_idx, walk_matches>>
copyVars == <<matches, clear_existing, output_directory, copy_pc, copy_i, copied_files>>
scoreVars == <<sc_call, sc_ret>>
registryVars == <<registry, all_copy, registrations>>
convVars == <<render, conv_pc, skin>>

\* what each component leaves alone
notSearch == <<walkVars, copyVars, scoreVars, registryVars, convVars, merge, gui>>
notWalk == <<vars, copyVars, scoreVars, registryVars, convVars, merge, gui>>
notCopy == <<vars, walkVars, scoreVars, registryVars, convVars, merge, gui>>
notScore == <<vars, walkVars, copyVars, registryVars, convVars, merge, gui>>
notRegistry == <<vars, walkVars, copyVars, scoreVars, convVars, merge, gui>>
notConv == <<vars, walkVars, copyVars, scoreVars, registryVars, merge, gui>>
notMerge == <<vars, walkVars, copyVars, scoreVars, registryVars, convVars, gui>>
notGui == <<vars, walkVars, copyVars, scoreVars, registryVars, convVars, merge>>

\* a component nothing has called yet
WalkIdle ==
    walk_query = <<>> /\ walks = <<>> /\ walk_idx = <<>> /\ walk_matches = <<>>
CopyIdle ==
    /\ matches = <<>> /\ clear_existing = FALSE /\ output_directory = {}
    /\ copy_pc = "start" /\ copy_i = 0 /\ copied_files = <<>>
ScoreIdle == sc_call = <<>> /\ sc_ret = <<>>
RegistryIdle == registry = <<>> /\ all_copy = <<>> /\ registrations = 0
ConvIdle == render = <<>> /\ conv_pc = "idle" /\ skin = <<>>
MergeIdle == merge = <<>>
GuiIdle == gui = <<>>

\* the directory trees searched: any contents in any walk order
RECURSIVE SeqsUpTo(_, _)
SeqsUpTo(S, n) ==
    IF n = 0 THEN {<<>>}
    ELSE LET shorter == SeqsUpTo(S, n - 1)
         IN shorter \cup {Append(s, x) : s \in {t \in shorter : Len(t) = n - 1}, x \in S}

Trees == {[i \in DOMAIN cs |-> [path |-> i, img |-> cs[i]]] : cs \in SeqsUpTo(Contents, MaxFiles)}

NoReturn == [matches |-> NoneValue, error |-> "not returned"]

Init ==
    /\ algorithm \in AlgorithmNames
    /\ top_n \in (-1)..MaxTopN
    /\ target \in Contents
    /\ root_kind \in {"dir", "file", "missing"}
    /\ tree \in Trees
    /\ (root_kind # "dir" => tree = <<>>)
    /\ progress_callback \in BOOLEAN
    /\ cancel_check \in BOOLEAN
    /\ should_cancel = FALSE
    /\ pc = "start"
    /\ exc = None
    /\ target_features = NoneValue
    /\ all_files = <<>>
    /\ total_files = 0
    /\ idx = 0
    /\ top_matches = <<>>
    /\ processed_files = 0
    /\ skipped_files = 0
    /\ scored = <<>>
    /\ reports = <<>>
    /\ ret = NoReturn
    /\ WalkIdle /\ CopyIdle /\ ScoreIdle /\ RegistryIdle /\ ConvIdle /\ MergeIdle /\ GuiIdle

\* ------------------------------------------------------------------ search
\* collect_all_files: os.walk yields nothing for a path that is missing or
\* is not a directory (its onerror is None)
collect_all_files(kind, files) == IF kind = "dir" THEN files ELSE <<>>

\* mutant: the empty file list is not detected
NoFilesFoundOmitted(files) == FALSE

\* line 57: total_files == 0
NoFilesFound(files) == Len(files) = 0

Report(cur, tot) == IF progress_callback THEN <<<<cur, tot>>>> ELSE <<>>

\* find_matching_skins, lines 37-67: the target's features and the file list
Begin ==
    /\ pc = "start"
    /\ LET tf == get_image_features(0, target, algorithm)
           files == collect_all_files(root_kind, tree)
       IN  IF tf = NoneValue THEN
               /\ ret' = [matches |-> NoneValue, error |-> "Could not extract features"]
               /\ pc' = "done"
               /\ reports' = reports \o Report(0, 0)
               /\ UNCHANGED locals
           ELSE IF NoFilesFound(files) THEN
               /\ ret' = [matches |-> NoneValue, error |-> "No files found in search directory"]
               /\ pc' = "done"
               /\ reports' = reports \o Report(0, 0) \o Report(0, 0)
               /\ target_features' = tf
               /\ UNCHANGED <<all_files, total_files, idx, top_matches,
                              processed_files, skipped_files, scored>>
           ELSE
               /\ target_features' = tf
               /\ all_files' = files
               /\ total_files' = Len(files)
               /\ reports' = reports \o Report(0, 0) \o Report(0, 0) \o Report(0, Len(files))
               /\ top_matches' = <<>>
               /\ processed_files' = 0
               /\ skipped_files' = 0
               /\ idx' = 0
               /\ pc' = "loop"
               /\ UNCHANGED <<scored, ret>>
    /\ UNCHANGED <<args, should_cancel, exc>>
    /\ UNCHANGED notSearch

\* lines 87-88
update_interval == IF algorithm \in {"ai_perceptual", "ai_mobile"} THEN 10 ELSE 100

\* time.time() - start_time at a report: zero when the clock has not ticked
ElapsedTicks == {0, 1}

\* mutant: no report for the last candidate unless the interval falls on it
ProgressUpdateOnIntervalOnly(i) ==
    IF progress_callback /\ i % update_interval = 0 THEN
        \E elapsed \in ElapsedTicks :
            IF elapsed = 0
            THEN pc' = "raised" /\ exc' = "ZeroDivisionError" /\ reports' = reports
            ELSE pc' = "loop" /\ exc' = exc /\ reports' = reports \o <<<<i, total_files>>>>
    ELSE pc' = "loop" /\ exc' = exc /\ reports' = reports

\* lines 87-97 at the end of iteration i: either the report is issued, or
\* idx / elapsed raises ZeroDivisionError
ProgressUpdate(i) ==
    IF progress_callback /\ (i % update_interval = 0 \/ i = total_files) THEN
        \E elapsed \in ElapsedTicks :
            IF elapsed = 0
            THEN pc' = "raised" /\ exc' = "ZeroDivisionError" /\ reports' = reports
            ELSE pc' = "loop" /\ exc' = exc /\ reports' = reports \o <<<<i, total_files>>>>
    ELSE pc' = "loop" /\ exc' = exc /\ reports' = reports

\* lines 70-72: the cancellation check at the top of an iteration
Cancelled ==
    /\ pc = "loop"
    /\ idx < total_files
    /\ cancel_check /\ should_cancel
    /\ ret' = [matches |-> IF top_matches # <<>> THEN Some(top_matches) ELSE NoneValue,
               error |-> "Cancelled by user"]
    /\ pc' = "done"
    /\ UNCHANGED <<args, should_cancel, exc, locals, reports>>
    /\ UNCHANGED notSearch

\* lines 74-83 and 87-97: a candidate whose features are extracted
ProcessCandidate ==
    /\ pc = "loop"
    /\ idx < total_files
    /\ ~(cancel_check /\ should_cancel)
    /\ LET i == idx + 1
           file == all_files[i]
           candidate_features == get_image_features(file.path, file.img, algorithm)
       IN  /\ candidate_features # NoneValue
           \* line 76: the score is computed once and bound to a value
           /\ \E sim \in {SimilarityTable[target_features[1].algorithm]
                             [target_features[1].img][candidate_features[1].img]} :
              LET entry == [distance |-> sim.distance, path |-> file.path,
                            metrics |-> sim.metrics]
              IN  /\ processed_files' = processed_files + 1
                  /\ top_matches' = Slice(SortByDistance(Append(top_matches, entry)), top_n)
                  /\ scored' = Append(scored, [distance |-> sim.distance, path |-> file.path])
           /\ idx' = i
           /\ ProgressUpdate(i)
    /\ UNCHANGED <<args, should_cancel, target_features, all_files, total_files,
                   skipped_files, ret>>
    /\ UNCHANGED notSearch

\* mutant: a candidate whose features cannot be extracted ends the search
SkipCandidateAborts ==
    /\ pc = "loop"
    /\ idx < total_files
    /\ ~(cancel_check /\ should_cancel)
    /\ get_image_features(all_files[idx + 1].path, all_files[idx + 1].img, algorithm) = NoneValue
    /\ ret' = [matches |-> NoneValue, error |-> "Could not extract features"]
    /\ pc' = "done"
    /\ UNCHANGED <<args, should_cancel, exc, locals, reports>>
    /\ UNCHANGED notSearch

\* lines 74, 84-85 and 87-97: a candidate whose features cannot be extracted
SkipCandidate ==
    /\ pc = "loop"
    /\ idx < total_files
    /\ ~(cancel_check /\ should_cancel)
    /\ LET i == idx + 1
           file == all_files[i]
       IN  /\ get_image_features(file.path, file.img, algorithm) = NoneValue
           /\ skipped_files' = skipped_files + 1
           /\ idx' = i
           /\ ProgressUpdate(i)
    /\ UNCHANGED <<args, should_cancel, target_features, all_files, total_files,
                   top_matches, processed_files, scored, ret>>
    /\ UNCHANGED notSearch

\* line 99: the loop is exhausted
Return ==
    /\ pc = "loop"
    /\ idx = total_files
    /\ ret' = [matches |-> Some(top_matches), error |-> None]
    /\ pc' = "done"
    /\ UNCHANGED <<args, should_cancel, exc, locals, reports>>
    /\ UNCHANGED notSearch

\* gui_main.SkinCopierGUI.cancel_matching, while the search runs
\* (is_processing is set before the worker starts and cleared after the
\* search returns)
cancel_matching ==
    /\ pc \in {"start", "loop"}
    /\ cancel_check
    /\ ~should_cancel
    /\ should_cancel' = TRUE
    /\ UNCHANGED <<args, pc, exc, locals, reports, ret>>
    /\ UNCHANGED notSearch

Next ==
    \/ Begin
    \/ Cancelled
    \/ ProcessCandidate
    \/ SkipCandidate
    \/ Return
    \/ cancel_matching

Spec == Init /\ [][Next]_vars

\* the search before find_matching_skins is called
SearchIdle ==
    /\ algorithm = "balanced" /\ top_n = 0 /\ target = Corrupt
    /\ root_kind = "missing" /\ tree = <<>>
    /\ progress_callback = FALSE /\ cancel_check = FALSE /\ should_cancel = FALSE
    /\ pc = "start" /\ exc = None
    /\ target_features = NoneValue /\ all_files = <<>> /\ total_files = 0
    /\ idx = 0 /\ top_matches = <<>> /\ processed_files = 0 /\ skipped_files = 0
    /\ scored = <<>> /\ reports = <<>> /\ ret = NoReturn

\* ------------------------------------- one file set, two enumeration orders
\* collect_all_files appends in the order os.walk (os.scandir) yields the
\* entries, which is the file system's: every order of the same files
WalkOrders(files) ==
    {[i \in DOMAIN files |-> files[p[i]]] :
        p \in {q \in [DOMAIN files -> DOMAIN files] :
                  \A i, j \in DOMAIN files : i # j => q[i] # q[j]}}

WalkInit ==
    /\ walk_query \in [target : Images, top_n : 1..MaxTopN, algorithm : {"balanced", "fast"}]
    /\ \E files \in Trees : walks \in {<<files, w>> : w \in WalkOrders(files)}
    /\ walk_idx = <<0, 0>>
    /\ walk_matches = <<<<>>, <<>>>>
    /\ SearchIdle /\ CopyIdle /\ ScoreIdle /\ RegistryIdle /\ ConvIdle /\ MergeIdle /\ GuiIdle

\* find_matching_skins, lines 74-85, in search r (the second search starts
\* when the first has returned): the candidate is scored and kept, or skipped
WalkCandidate(r) ==
    /\ walk_idx[r] < Len(walks[r])
    /\ r = 2 => walk_idx[1] = Len(walks[1])
    /\ LET file == walks[r][walk_idx[r] + 1]
           tf == get_image_features(0, walk_query.target, walk_query.algorithm)
           candidate_features == get_image_features(file.path, file.img, walk_query.algorithm)
       IN  IF candidate_features # NoneValue THEN
               \E sim \in {SimilarityTable[tf[1].algorithm][tf[1].img][candidate_features[1].img]} :
               LET entry == [distance |-> sim.distance, path |-> file.path,
                             metrics |-> sim.metrics]
               IN walk_matches' = [walk_matches EXCEPT ![r] =
                      Slice(SortByDistance(Append(@, entry)), walk_query.top_n)]
           ELSE walk_matches' = walk_matches
    /\ walk_idx' = [walk_idx EXCEPT ![r] = @ + 1]
    /\ UNCHANGED <<walk_query, walks>>
    /\ UNCHANGED notWalk

WalkNext == \E r \in 1..2 : WalkCandidate(r)

SpecWalk == WalkInit /\ [][WalkNext]_walkVars

\* ------------------------------------------------- copying the matches out
MaxMatches == 3
MaxRank == 12

\* os.path.basename of the match paths copied here: two directories hold
\* files of the same two names
MatchPaths == {<<"x", "a">>, <<"x", "1_a">>, <<"y", "a">>, <<"y", "1_a">>}
basename(path) == path[2]

\* f"match_{i}_{source_filename}.png"
DestName(i, source_filename) ==
    "match_" \o ToString(i) \o "_" \o source_filename \o ".png"

\* what an earlier batch left in the output directory; os.remove can fail on
\* an entry (read-only or open elsewhere)
EarlierFiles ==
    {[name |-> DestName(1, "a"), kind |-> "file", from |-> "earlier", removable |-> r] :
        r \in BOOLEAN}
    \cup {[name |-> DestName(3, "1_a"), kind |-> "file", from |-> "earlier", removable |-> r] :
        r \in BOOLEAN}

\* a subdirectory, which os.path.isfile rejects
SubDirectory == [name |-> "sub", kind |-> "dir", from |-> "user", removable |-> TRUE]

\* the match lists handed over: find_matching_skins' ascending lists
MatchLists ==
    {[i \in DOMAIN ps |-> [distance |-> IF tied THEN 0 ELSE i * Percent, path |-> ps[i]]] :
        ps \in SeqsUpTo(MatchPaths, MaxMatches), tied \in BOOLEAN}

CopyInit ==
    /\ matches \in MatchLists
    /\ clear_existing \in BOOLEAN
    /\ output_directory \in
           {D \in SUBSET (EarlierFiles \cup {SubDirectory}) :
               \A e1, e2 \in D : e1.name = e2.name => e1 = e2}
    /\ copy_pc = "start"
    /\ copy_i = 0
    /\ copied_files = <<>>
    /\ SearchIdle /\ WalkIdle /\ ScoreIdle /\ RegistryIdle /\ ConvIdle /\ MergeIdle /\ GuiIdle

\* copy_skin_files, lines 117-125: every file os.remove accepts is removed,
\* a failure of os.remove is swallowed
Clear(dir) == {e \in dir : e.kind # "file" \/ ~e.removable}

\* copy_skin_files, lines 113-125
CopyBegin ==
    /\ copy_pc = "start"
    /\ output_directory' = IF clear_existing THEN Clear(output_directory)
                           ELSE output_directory
    /\ copy_pc' = "copy"
    /\ UNCHANGED <<matches, clear_existing, copy_i, copied_files>>
    /\ UNCHANGED notCopy

\* mutant: the rank printed is the 0-based index
CopyRankZeroBased(i) == i - 1

\* enumerate(matches, 1): the rank of the i-th match
CopyRank(i) == i

\* copy_skin_files, lines 129-139: one match is copied (shutil.copy2
\* replaces a file of the same name), or copy2 raises and it is passed over
CopyOne ==
    /\ copy_pc = "copy"
    /\ copy_i < Len(matches)
    /\ LET i == copy_i + 1
           match_path == matches[i].path
           dest_filename == DestName(CopyRank(i), basename(match_path))
           written == [name |-> dest_filename, kind |-> "file", from |-> match_path,
                       removable |-> TRUE]
       IN  /\ copy_i' = i
           /\ \E raised \in BOOLEAN :
                  IF raised \/ \E e \in output_directory :
                                   e.name = dest_filename /\ ~e.removable
                  THEN UNCHANGED <<output_directory, copied_files>>
                  ELSE /\ output_directory' =
                              {e \in output_directory : e.name # dest_filename}
                                  \cup {written}
                       /\ copied_files' = Append(copied_files,
                              [dest |-> dest_filename, distance |-> matches[i].distance,
                               match |-> i])
    /\ UNCHANGED <<matches, clear_existing, copy_pc>>
    /\ UNCHANGED notCopy

\* line 141
CopyReturn ==
    /\ copy_pc = "copy"
    /\ copy_i = Len(matches)
    /\ copy_pc' = "done"
    /\ UNCHANGED <<matches, clear_existing, output_directory, copy_i, copied_files>>
    /\ UNCHANGED notCopy

CopyNext == CopyBegin \/ CopyOne \/ CopyReturn

SpecCopy == CopyInit /\ [][CopyNext]_copyVars

\* ------------------------------------------------------------ scoring calls
\* the palettes handed to the distance primitive: an empty one and those of
\* the test pictures
Palettes ==
    {[colors |-> {}, counts |-> <<>>]}
        \cup {extract_dominant_colors_fast(img, 12) : img \in Images}

\* a call of image_matcher.calculate_similarity on the bundles of two
\* pictures, of a registered algorithm's calculate_similarity, or of the two
\* color_palette_distance_fast on two palettes
ScoreInit ==
    /\ sc_call \in
           {<<[fn |-> "calculate_similarity", algorithm |-> a, target |-> t, candidate |-> c,
               TORCH_AVAILABLE |-> ta, extracted |-> ex]>> :
                a \in DOMAIN ALGORITHM_WEIGHTS, t \in Images, c \in Images,
                ta \in BOOLEAN, ex \in BOOLEAN \X BOOLEAN}
           \cup {<<[fn |-> "registered", algorithm |-> a, target |-> t, candidate |-> c,
                    TORCH_AVAILABLE |-> FALSE, extracted |-> <<FALSE, FALSE>>]>> :
                a \in RegisteredNames, t \in Images, c \in Images}
           \cup {<<[fn |-> "color_palette_distance_fast", algorithm |-> "", target |-> p1,
                    candidate |-> p2, TORCH_AVAILABLE |-> FALSE,
                    extracted |-> <<FALSE, FALSE>>]>> :
                p1 \in Palettes, p2 \in Palettes}
    /\ sc_ret = <<>>
    /\ SearchIdle /\ WalkIdle /\ CopyIdle /\ RegistryIdle /\ ConvIdle /\ MergeIdle /\ GuiIdle

\* get_image_features for the target and for the candidate
ExtractFeatures ==
    /\ sc_call[1].fn = "calculate_similarity"
    /\ sc_ret = <<>>
    /\ LET call == sc_call[1]
       IN sc_ret' = <<[stage |-> "features",
                       target_features |->
                           with_embedding(get_image_features(0, call.target, call.algorithm),
                                          call.TORCH_AVAILABLE, call.extracted[1]),
                       candidate_features |->
                           with_embedding(get_image_features(0, call.candidate, call.algorithm),
                                          call.TORCH_AVAILABLE, call.extracted[2])]>>
    /\ UNCHANGED sc_call
    /\ UNCHANGED notScore

\* image_matcher.calculate_similarity on the two bundles
Score ==
    /\ sc_ret # <<>>
    /\ sc_ret[1].stage = "features"
    /\ LET tf == sc_ret[1].target_features
           cf == sc_ret[1].candidate_features
           sim == calculate_similarity(tf[1], cf[1], sc_call[1].algorithm)
       IN sc_ret' = <<[stage |-> "scored", target_features |-> tf,
                       candidate_features |-> cf,
                       distance |-> sim.distance, metrics |-> sim.metrics]>>
    /\ UNCHANGED sc_call
    /\ UNCHANGED notScore

\* get_algorithm(name).calculate_similarity on the features of two pictures
ScoreRegistered ==
    /\ sc_call[1].fn = "registered"
    /\ sc_ret = <<>>
    /\ LET call == sc_call[1]
           sim == RegistrySimilarity(call.algorithm, call.target, call.candidate)
       IN sc_ret' = <<[stage |-> "scored", target_features |-> <<call.target>>,
                       candidate_features |-> <<call.candidate>>,
                       distance |-> sim.distance, metrics |-> sim.metrics]>>
    /\ UNCHANGED sc_call
    /\ UNCHANGED notScore

\* the two color_palette_distance_fast on the same pair of palettes
PaletteDistance ==
    /\ sc_call[1].fn = "color_palette_distance_fast"
    /\ sc_ret = <<>>
    /\ sc_ret' = <<[stage |-> "distance",
                    image_matcher |->
                        color_palette_distance_fast(sc_call[1].target, sc_call[1].candidate),
                    feature_extractors |->
                        fe_color_palette_distance_fast(sc_call[1].target,
                                                       sc_call[1].candidate)]>>
    /\ UNCHANGED sc_call
    /\ UNCHANGED notScore

ScoreNext == ExtractFeatures \/ Score \/ ScoreRegistered \/ PaletteDistance

SpecScore == ScoreInit /\ [][ScoreNext]_scoreVars

\* ----------------------------------------------------- algorithm registry
MaxRegistrations == 2

\* _registry after import: __init__ has run _register_default_algorithms
DefaultRegistry ==
    [name \in RegisteredNames |->
        CASE name = "render_to_skin" -> "RenderToSkinAlgorithm"
          [] name = "render_match" -> "RenderMatchAlgorithm"
          [] name = "balanced" -> "BalancedAlgorithm"
          [] name = "color_frequency" -> "ColorFrequencyAlgorithm"]

\* MatchingAlgorithm instances a caller can hand to register_algorithm: one
\* under a new name, one under a registered name
CustomAlgorithms ==
    {[name |-> "custom", class |-> "CustomAlgorithm"],
     [name |-> "balanced", class |-> "CustomAlgorithm"]}

RegistryInit ==
    /\ registry = DefaultRegistry
    /\ all_copy = <<>>
    /\ registrations = 0
    /\ SearchIdle /\ WalkIdle /\ CopyIdle /\ ScoreIdle /\ ConvIdle /\ MergeIdle /\ GuiIdle

\* AlgorithmRegistry.register: self._algorithms[algorithm.name] = algorithm
register(algorithms, algo) ==
    [name \in (DOMAIN algorithms) \cup {algo.name} |->
        IF name = algo.name THEN algo.class ELSE algorithms[name]]

\* the module-level register_algorithm, public and callable at any time
register_algorithm ==
    /\ registrations < MaxRegistrations
    /\ \E algo \in CustomAlgorithms : registry' = register(registry, algo)
    /\ registrations' = registrations + 1
    /\ UNCHANGED all_copy
    /\ UNCHANGED notRegistry

\* get_all_algorithms: dict(self._algorithms), a new dict
get_all_algorithms ==
    /\ all_copy' = <<registry>>
    /\ UNCHANGED <<registry, registrations>>
    /\ UNCHANGED notRegistry

\* the caller of get_all_algorithms deletes a key of the dict it was given,
\* or stores an algorithm in it
ChangeCopy ==
    /\ all_copy # <<>>
    /\ \/ \E name \in DOMAIN all_copy[1] :
              all_copy' = <<[n \in (DOMAIN all_copy[1]) \ {name} |-> all_copy[1][n]]>>
       \/ \E algo \in CustomAlgorithms :
              all_copy' = <<register(all_copy[1], algo)>>
    /\ UNCHANGED <<registry, registrations>>
    /\ UNCHANGED notRegistry

RegistryNext == register_algorithm \/ get_all_algorithms \/ ChangeCopy

SpecRegistry == RegistryInit /\ [][RegistryNext]_registryVars

\* -------------------------------------------------------- render converter
\* np.zeros((64, 64, 4)): the atlas and its cells (row, column)
AtlasSide == 64
Cells == (0..(AtlasSide - 1)) \X (0..(AtlasSide - 1))

Transparent == <<0, 0, 0, 0>>

\* the pictures converted, (width, height) given: one RGBA colour down to
\* the row where the legs begin (int(h * 0.70)), and one colour from there on
RenderPictures ==
    [size : {<<64, 64>>, <<64, 32>>, <<128, 128>>, <<16, 16>>},
     pixel : {<<255, 0, 0, 255>>, <<0, 0, 255, 255>>, Transparent},
     legs : {<<255, 0, 0, 255>>, <<0, 0, 255, 255>>, Transparent}]

\* int(n * 0.p)
Frac(n, p) == (n * p) \div 100

\* render_array[y, x]
PixelAt(img, y, x) == IF y >= Frac(img.size[2], 70) THEN img.legs ELSE img.pixel

\* extract_and_resize: an empty region gives zeros; a region the converter
\* asks for lies above the legs' first row or starts at or below it, is of
\* one colour, and so is the region resized
extract_and_resize(img, y1, y2, x1, x2) ==
    IF Min(img.size[2], y2) <= Max(0, y1) \/ Min(img.size[1], x2) <= Max(0, x1)
    THEN Transparent
    ELSE PixelAt(img, Max(0, y1), Max(0, x1))

\* get_average_color of a block of one colour
get_average_color(px) ==
    IF px[4] > 128 THEN <<px[1], px[2], px[3], 255>> ELSE <<0, 0, 0, 255>>

\* convert_render_to_skin, lines 237-289: the regions cropped from the render
\* and the two average colours
Regions(img) ==
    LET h == img.size[2]
        w == img.size[1]
        head_top == Frac(h, 5)
        head_bottom == Frac(h, 35)
        head_left == Frac(w, 35)
        head_right == Frac(w, 65)
        body_top == Frac(h, 35)
        body_bottom == Frac(h, 70)
        leg_top == Frac(h, 70)
        leg_bottom == Frac(h, 95)
        hh == head_bottom - head_top
        hw == head_right - head_left
        bh == body_bottom - body_top
        front_head == extract_and_resize(img, head_top + Frac(hh, 40), head_bottom - Frac(hh, 20),
                          head_left + Frac(hw, 30), head_right - Frac(hw, 30))
        left_head == extract_and_resize(img, head_top + Frac(hh, 40), head_bottom - Frac(hh, 20),
                         head_left, head_left + Frac(hw, 30))
        top_head == extract_and_resize(img, head_top, head_top + Frac(hh, 30),
                        head_left + Frac(hw, 30), head_right - Frac(hw, 30))
        avg_head == get_average_color(front_head)
        front_body == extract_and_resize(img, body_top + Frac(bh, 10), body_bottom,
                          head_left + Frac(hw, 25), head_right - Frac(hw, 25))
        left_body == extract_and_resize(img, body_top + Frac(bh, 10), body_bottom,
                         head_left, head_left + Frac(hw, 25))
        avg_body == get_average_color(front_body)
        right_arm == extract_and_resize(img, body_top + Frac(bh, 10), body_bottom,
                         head_left - Frac(hw, 15), head_left)
        right_leg == extract_and_resize(img, leg_top, leg_bottom,
                         head_left + Frac(hw, 20), head_left + Frac(hw, 40))
        left_leg == extract_and_resize(img, leg_top, leg_bottom,
                        head_left + Frac(hw, 60), head_left + Frac(hw, 80))
    IN [front_head |-> front_head, left_head |-> left_head, top_head |-> top_head,
        avg_head |-> avg_head, front_body |-> front_body, left_body |-> left_body,
        avg_body |-> avg_body, right_arm |-> right_arm, right_leg |-> right_leg,
        left_leg |-> left_leg]

\* feature_extractors.convert_render_to_skin: the atlas starts as zeros and
\* the regions are stored in the order of the code, a later one over an
\* earlier one; <<row from, row to, column from, column to, colour>>
convert_render_to_skin(img) ==
    LET r == Regions(img)
        stores == <<
            <<8, 16, 8, 16, r.front_head>>,
            <<8, 16, 16, 24, r.left_head>>,
            <<0, 8, 8, 16, r.top_head>>,
            <<8, 16, 0, 8, r.left_head>>,
            <<8, 16, 24, 32, r.avg_head>>,
            <<16, 24, 8, 16, [k \in 1..4 |-> (r.avg_head[k] * 8) \div 10]>>,
            <<20, 32, 20, 28, r.front_body>>,
            <<20, 32, 16, 20, r.left_body>>,
            <<20, 32, 28, 32, r.left_body>>,
            <<20, 32, 32, 40, r.avg_body>>,
            <<20, 32, 44, 48, r.right_arm>>,
            <<20, 32, 36, 40, r.right_arm>>,
            <<20, 32, 4, 8, r.right_leg>>,
            <<20, 32, 20, 24, r.left_leg>> >>
    IN [cell \in Cells |->
           LET over == {k \in DOMAIN stores :
                           /\ stores[k][1] <= cell[1] /\ cell[1] < stores[k][2]
                           /\ stores[k][3] <= cell[2] /\ cell[2] < stores[k][4]}
           IN IF over = {} THEN Transparent
              ELSE stores[CHOOSE k \in over : \A j \in over : j <= k][5]]

\* the converter tab with its two path fields filled in or not
ConvInit ==
    /\ render \in [input_path : {"", "missing.png", "render.png"},
                   output_path : {"", "skin.png"},
                   picture : RenderPictures]
    /\ conv_pc = "idle"
    /\ skin = <<>>
    /\ SearchIdle /\ WalkIdle /\ CopyIdle /\ ScoreIdle /\ RegistryIdle /\ MergeIdle /\ GuiIdle

\* ConverterTab.convert_render_to_skin, lines 196-206: an error box, nothing
\* converted
ConvertRejected ==
    /\ conv_pc = "idle"
    /\ render.input_path # "render.png" \/ render.output_path = ""
    /\ conv_pc' = "error"
    /\ UNCHANGED <<render, skin>>
    /\ UNCHANGED notConv

\* ConverterTab.convert_render_to_skin, lines 208-217: the picture is
\* opened, converted whatever its size, and saved
ConvertSaved ==
    /\ conv_pc = "idle"
    /\ render.input_path = "render.png" /\ render.output_path # ""
    /\ skin' = convert_render_to_skin(render.picture)
    /\ conv_pc' = "saved"
    /\ UNCHANGED render
    /\ UNCHANGED notConv

ConvNext == ConvertRejected \/ ConvertSaved

SpecConv == ConvInit /\ [][ConvNext]_convVars

\* extract_visible_skin_regions: the cell ranges it reads, each with the
\* region the converter stores at that range
VisibleRanges(r) ==
    {<<8, 16, 8, 16, r.front_head>>,
     <<8, 16, 16, 24, r.left_head>>,
     <<0, 8, 8, 16, r.top_head>>,
     <<20, 32, 20, 28, r.front_body>>,
     <<20, 32, 28, 32, r.left_body>>,
     <<20, 32, 44, 48, r.right_arm>>,
     <<20, 32, 36, 40, r.right_arm>>,
     <<20, 32, 4, 8, r.right_leg>>,
     <<20, 32, 20, 24, r.left_leg>>}

\* ------------------------------------------- cancellation, step by step
\* The search loop with the check at the top of an iteration (lines 70-72)
\* and the rest of the iteration (lines 74-97) as two steps, so that the
\* flag can be set while a candidate is in progress: pc = "candidate".
CancelInit ==
    /\ algorithm \in {"balanced", "fast"}
    /\ top_n \in 1..MaxTopN
    /\ target \in Contents
    /\ root_kind = "dir"
    /\ tree \in Trees
    /\ progress_callback \in BOOLEAN
    /\ cancel_check \in BOOLEAN
    /\ should_cancel = FALSE
    /\ pc = "start"
    /\ exc = None
    /\ target_features = NoneValue
    /\ all_files = <<>>
    /\ total_files = 0
    /\ idx = 0
    /\ top_matches = <<>>
    /\ processed_files = 0
    /\ skipped_files = 0
    /\ scored = <<>>
    /\ reports = <<>>
    /\ ret = NoReturn
    /\ WalkIdle /\ CopyIdle /\ ScoreIdle /\ RegistryIdle /\ ConvIdle /\ MergeIdle /\ GuiIdle

\* mutant: the loop does not look at the cancel predicate
CancelRequestedIgnored == FALSE

\* line 71: cancel_check and cancel_check()
CancelRequested == cancel_check /\ should_cancel

\* lines 70-72, the predicate is false or absent: the iteration goes on
CheckPassed ==
    /\ pc = "loop"
    /\ idx < total_files
    /\ ~CancelRequested
    /\ pc' = "candidate"
    /\ UNCHANGED <<args, should_cancel, exc, locals, reports, ret>>
    /\ UNCHANGED notSearch

\* lines 74-83 and 87-97 after the check: features extracted and scored
CandidateScored ==
    /\ pc = "candidate"
    /\ LET i == idx + 1
           file == all_files[i]
           candidate_features == get_image_features(file.path, file.img, algorithm)
       IN  /\ candidate_features # NoneValue
           /\ \E sim \in {SimilarityTable[target_features[1].algorithm]
                             [target_features[1].img][candidate_features[1].img]} :
              LET entry == [distance |-> sim.distance, path |-> file.path,
                            metrics |-> sim.metrics]
              IN  /\ processed_files' = processed_files + 1
                  /\ top_matches' = Slice(SortByDistance(Append(top_matches, entry)), top_n)
                  /\ scored' = Append(scored, [distance |-> sim.distance, path |-> file.path])
           /\ idx' = i
           /\ ProgressUpdate(i)
    /\ UNCHANGED <<args, should_cancel, target_features, all_files, total_files,
                   skipped_files, ret>>
    /\ UNCHANGED notSearch

\* lines 74, 84-85 and 87-97 after the check: no features, the file is skipped
CandidateSkipped ==
    /\ pc = "candidate"
    /\ LET i == idx + 1
           file == all_files[i]
       IN  /\ get_image_features(file.path, file.img, algorithm) = NoneValue
           /\ skipped_files' = skipped_files + 1
           /\ idx' = i
           /\ ProgressUpdate(i)
    /\ UNCHANGED <<args, should_cancel, target_features, all_files, total_files,
                   top_matches, processed_files, scored, ret>>
    /\ UNCHANGED notSearch

\* gui_main.SkinCopierGUI.cancel_matching while a candidate is in progress
cancel_matching_in_progress ==
    /\ pc = "candidate"
    /\ cancel_check
    /\ ~should_cancel
    /\ should_cancel' = TRUE
    /\ UNCHANGED <<args, pc, exc, locals, reports, ret>>
    /\ UNCHANGED notSearch

CancelNext ==
    \/ Begin
    \/ Cancelled
    \/ CheckPassed
    \/ CandidateScored
    \/ CandidateSkipped
    \/ Return
    \/ cancel_matching
    \/ cancel_matching_in_progress

SpecCancel == CancelInit /\ [][CancelNext]_vars

\* ------------------------------------------------ dominant colour codes
\* 8-bit channel values on and off the quantization grid
ChannelValues == {0, 16, 40, 255}

\* a call of extract_dominant_colors_fast on a picture of two pixels
ColorsInit ==
    /\ sc_call \in {<<[fn |-> "extract_dominant_colors_fast", img |-> <<p, q>>]>> :
                       p \in ChannelValues \X ChannelValues \X ChannelValues,
                       q \in ChannelValues \X ChannelValues \X ChannelValues}
    /\ sc_ret = <<>>
    /\ SearchIdle /\ WalkIdle /\ CopyIdle /\ RegistryIdle /\ ConvIdle /\ MergeIdle /\ GuiIdle

\* extract_dominant_colors_fast (the same text in image_matcher and in
\* feature_extractors): the quantized pixels, their codes, and the colours
\* decoded from the codes
ExtractDominantColors ==
    /\ sc_call[1].fn = "extract_dominant_colors_fast"
    /\ sc_ret = <<>>
    /\ LET img == sc_call[1].img
       IN sc_ret' = <<[pixels_quantized |->
                           [i \in DOMAIN img |-> [k \in 1..3 |-> Quantize(img[i][k])]],
                       pixel_codes |-> [i \in DOMAIN img |-> PixelCode(img[i])],
                       colors |-> extract_dominant_colors_fast(img, 12).colors]>>
    /\ UNCHANGED sc_call
    /\ UNCHANGED notScore

SpecColors == ColorsInit /\ [][ExtractDominantColors]_scoreVars

\* ----------------------------------------------- progress over a long loop
\* The search over directories long enough for the update interval to pass
\* (10 candidates for the AI algorithms, 100 for the others); the files of a
\* directory are all of one content, and no cancel_check is given.
MaxLoopFiles == 101

ProgressInit ==
    /\ algorithm \in {"balanced", "ai_perceptual"}
    /\ top_n = 1
    /\ target = RedImage
    /\ root_kind = "dir"
    /\ tree \in {[i \in 1..n |-> [path |-> i, img |-> c]] :
                    n \in 0..MaxLoopFiles, c \in {BlueImage, Corrupt}}
    /\ progress_callback \in BOOLEAN
    /\ cancel_check = FALSE
    /\ should_cancel = FALSE
    /\ pc = "start"
    /\ exc = None
    /\ target_features = NoneValue
    /\ all_files = <<>>
    /\ total_files = 0
    /\ idx = 0
    /\ top_matches = <<>>
    /\ processed_files = 0
    /\ skipped_files = 0
    /\ scored = <<>>
    /\ reports = <<>>
    /\ ret = NoReturn
    /\ WalkIdle /\ CopyIdle /\ ScoreIdle /\ RegistryIdle /\ ConvIdle /\ MergeIdle /\ GuiIdle

ProgressNext ==
    \/ Begin
    \/ ProcessCandidate
    \/ SkipCandidate
    \/ Return

SpecProgress == ProgressInit /\ [][ProgressNext]_vars

\* ------------------------------------------------ copy with merged folders
MaxMergeFiles == 3

\* file names met under the input directory, each file in a folder of its own
MergeNames == {"a", "a_1", "a_2", "b"}

\* copy_and_rename_to_png(input_dir, merge_files=True): the files in os.walk
\* order, and the function's locals before its loop
MergeInit ==
    /\ merge \in {[files |-> fs, i |-> 0, file_name_counter |-> <<>>, copied |-> <<>>,
                   pc |-> "walk"] : fs \in SeqsUpTo(MergeNames, MaxMergeFiles)}
    /\ SearchIdle /\ WalkIdle /\ CopyIdle /\ ScoreIdle /\ RegistryIdle /\ ConvIdle /\ GuiIdle

\* lines 79-87: the destination name of a file in merge mode, with the
\* counter as it is after the file
MergedName(base_name, counter) ==
    IF base_name \in DOMAIN counter
    THEN [dst |-> base_name \o "_" \o ToString(counter[base_name] + 1) \o ".png",
          counter |-> [counter EXCEPT ![base_name] = @ + 1]]
    ELSE [dst |-> base_name \o ".png",
          counter |-> counter @@ (base_name :> 0)]

\* lines 70-96: one file of the walk; shutil.copy2 succeeds, or raises and
\* the error is logged
MergeCopyFile ==
    /\ merge.pc = "walk"
    /\ merge.i < Len(merge.files)
    /\ LET i == merge.i + 1
           m == MergedName(merge.files[i], merge.file_name_counter)
       IN \E ok \in BOOLEAN :
             merge' = [merge EXCEPT !.i = i,
                                    !.file_name_counter = m.counter,
                                    !.copied = IF ok THEN Append(@, [src |-> i, dst |-> m.dst])
                                               ELSE @]
    /\ UNCHANGED notMerge

\* lines 98-101: the walk is over
MergeReturn ==
    /\ merge.pc = "walk"
    /\ merge.i = Len(merge.files)
    /\ merge' = [merge EXCEPT !.pc = "done"]
    /\ UNCHANGED notMerge

MergeNext == MergeCopyFile \/ MergeReturn

SpecMerge == MergeInit /\ [][MergeNext]_merge

\* ------------------------------------------------------------ the window
\* Strings are written in ASCII: "->" stands for the arrow U+2192, and
\* "[U+1F3AF]", "[U+2B50]" for the two pictographs in the keys of algo_map.

\* create_matcher_tab: the values of the algorithm dropdown
DropdownValues ==
    {"Balanced (Default)", "Render to Skin (Convert+Match)", "Render Match (3D->2D)",
     "Skin-Optimized", "AI Perceptual (ResNet18)", "AI Mobile (ResNet50)",
     "Deep Features", "Color Distribution", "Fast Match"}

\* run_matching: algo_map.get(choice, "balanced")
algo_map(choice) ==
    LET map == [key \in {"Render to Skin (Convert+Match) [U+1F3AF]",
                         "Render Match (3D->2D) [U+2B50]", "Balanced (Default)",
                         "Skin-Optimized", "AI Perceptual (ResNet18)",
                         "AI Mobile (ResNet50)", "Deep Features", "Color Distribution",
                         "Fast Match"} |->
                   CASE key = "Render to Skin (Convert+Match) [U+1F3AF]" -> "render_to_skin"
                     [] key = "Render Match (3D->2D) [U+2B50]" -> "render_match"
                     [] key = "Balanced (Default)" -> "balanced"
                     [] key = "Skin-Optimized" -> "skin_optimized"
                     [] key = "AI Perceptual (ResNet18)" -> "ai_perceptual"
                     [] key = "AI Mobile (ResNet50)" -> "ai_mobile"
                     [] key = "Deep Features" -> "deep_features"
                     [] key = "Color Distribution" -> "color_distribution"
                     [] key = "Fast Match" -> "fast"]
    IN IF choice \in DOMAIN map THEN map[choice] ELSE "balanced"

\* SkinCopierGUI.__init__ and the two tabs as built: nothing runs, the
\* start buttons are enabled and the cancel buttons disabled
GuiInit ==
    /\ gui \in [algorithm_choice : DropdownValues,
                is_processing : {FALSE}, should_cancel : {FALSE},
                match_btn : {"normal"}, match_cancel_btn : {"disabled"},
                process_btn : {"normal"}, cancel_btn : {"disabled"},
                match_pc : {"idle"}, proc_pc : {"idle"},
                algorithm : {""}, search_result : {""}, outcome : {""},
                proc_outcome : {""}]
    /\ SearchIdle /\ WalkIdle /\ CopyIdle /\ ScoreIdle /\ RegistryIdle /\ ConvIdle /\ MergeIdle

\* find_matches, lines 815-821 and 964-965: the Find button is pressed with
\* valid inputs and the worker thread is started
find_matches ==
    /\ gui.match_btn = "normal"
    /\ gui' = [gui EXCEPT !.should_cancel = FALSE,
                          !.match_btn = "disabled",
                          !.match_cancel_btn = "normal",
                          !.is_processing = TRUE,
                          !.match_pc = "begin",
                          !.search_result = "", !.outcome = ""]
    /\ UNCHANGED notGui

\* run_matching, lines 845-857, and find_matching_skins up to its loop: the
\* algorithm name is looked up; the search returns an error, or raises, or
\* reaches its loop
run_matching_begin ==
    /\ gui.match_pc = "begin"
    /\ \E r \in {"error", "raised", "loop"} :
          gui' = [gui EXCEPT !.algorithm = algo_map(gui.algorithm_choice),
                             !.match_pc = IF r = "loop" THEN "check"
                                          ELSE IF r = "raised" THEN "raised" ELSE "returned",
                             !.search_result = IF r = "loop" THEN "" ELSE r]
    /\ UNCHANGED notGui

\* find_matching_skins, lines 69-72: cancel_check() is self.should_cancel
search_check ==
    /\ gui.match_pc = "check"
    /\ gui' = IF gui.should_cancel
              THEN [gui EXCEPT !.match_pc = "returned", !.search_result = "cancelled"]
              ELSE [gui EXCEPT !.match_pc = "candidate"]
    /\ UNCHANGED notGui

\* find_matching_skins, lines 74-99: the candidate is finished; another one
\* follows, or it was the last and the completed list (with matches, or
\* empty) is returned, or the progress report raises
search_candidate ==
    /\ gui.match_pc = "candidate"
    /\ \E r \in {"more", "matches", "empty", "raised"} :
          gui' = [gui EXCEPT !.match_pc = IF r = "more" THEN "check"
                                          ELSE IF r = "raised" THEN "raised" ELSE "returned",
                             !.search_result = IF r = "more" THEN "" ELSE r]
    /\ UNCHANGED notGui

\* run_matching, lines 871-951, after the search has returned or raised;
\* copy_skin_files (os.makedirs, os.listdir) may raise, which nothing catches
run_matching_end ==
    /\ gui.match_pc \in {"returned", "raised"}
    /\ \E copy_raises \in BOOLEAN :
          LET buttons == [gui EXCEPT !.is_processing = FALSE,
                                     !.match_btn = "normal",
                                     !.match_cancel_btn = "disabled",
                                     !.match_pc = "ended"]
          IN  IF gui.match_pc = "raised"
              THEN gui' = [buttons EXCEPT !.outcome = "exception"]
              ELSE IF gui.should_cancel
              THEN gui' = [buttons EXCEPT !.outcome = "cancelled"]
              ELSE IF gui.search_result \in {"error", "cancelled"}
              THEN gui' = [buttons EXCEPT !.outcome = "error"]
              ELSE IF gui.search_result = "matches"
              THEN IF copy_raises
                   THEN gui' = [gui EXCEPT !.is_processing = FALSE,
                                           !.match_pc = "died", !.outcome = "died"]
                   ELSE gui' = [buttons EXCEPT !.outcome = "success"]
              ELSE gui' = [buttons EXCEPT !.outcome = "nothing"]
    /\ UNCHANGED notGui

\* cancel_matching: the matcher tab's Cancel button
gui_cancel_matching ==
    /\ gui.match_cancel_btn = "normal"
    /\ gui' = IF gui.is_processing
              THEN [gui EXCEPT !.should_cancel = TRUE, !.match_cancel_btn = "disabled"]
              ELSE gui
    /\ UNCHANGED notGui

\* process_folder, lines 1565-1572 and 1608-1610: the copier tab's start
\* button is pressed with a valid folder and its worker thread is started
process_folder ==
    /\ gui.process_btn = "normal"
    /\ gui' = [gui EXCEPT !.should_cancel = FALSE,
                          !.process_btn = "disabled",
                          !.cancel_btn = "normal",
                          !.is_processing = TRUE,
                          !.proc_pc = "running",
                          !.proc_outcome = ""]
    /\ UNCHANGED notGui

\* cancel_process: the copier tab's Cancel button
cancel_process ==
    /\ gui.cancel_btn = "normal"
    /\ gui' = IF gui.is_processing
              THEN [gui EXCEPT !.should_cancel = TRUE, !.cancel_btn = "disabled"]
              ELSE gui
    /\ UNCHANGED notGui

\* run_process, lines 1574-1606: copy_and_rename_to_png has returned, early
\* if its cancel_check saw self.should_cancel
run_process ==
    /\ gui.proc_pc = "running"
    /\ \E success \in BOOLEAN :
          gui' = [gui EXCEPT !.is_processing = FALSE,
                             !.process_btn = "normal",
                             !.cancel_btn = "disabled",
                             !.proc_pc = "ended",
                             !.proc_outcome = IF gui.should_cancel THEN "cancelled"
                                              ELSE IF success THEN "success" ELSE "failed"]
    /\ UNCHANGED notGui

GuiNext ==
    \/ find_matches
    \/ run_matching_begin
    \/ search_check
    \/ search_candidate
    \/ run_matching_end
    \/ gui_cancel_matching
    \/ process_folder
    \/ cancel_process
    \/ run_process

SpecGui == GuiInit /\ [][GuiNext]_gui

\* ================================================================== claims
Completed == pc = "done" /\ ret.error = None
CancelledReturn == pc = "done" /\ ret.error = "Cancelled by user"
ErrorMessages == {"Could not extract features", "No files found in search directory"}
ErrorReturn == pc = "done" /\ ret.error \in ErrorMessages

\* the list of the returned tuple; None counts as no entries
ReturnedList == IF ret.matches = NoneValue THEN <<>> ELSE ret.matches[1]
ReturnedPaths == {ReturnedList[i].path : i \in DOMAIN ReturnedList}

Readable(content) == content # Corrupt
ValidUpTo(n) == {i \in 1..n : Readable(all_files[i].img)}
CorruptUpTo(n) == {i \in 1..n : ~Readable(all_files[i].img)}

\* every entry of lst is a scored candidate, and every scored candidate left
\* out of lst is at least as far as every entry of lst
LowestOf(lst) ==
    /\ \A i \in DOMAIN lst : \E j \in DOMAIN scored :
           scored[j].path = lst[i].path /\ scored[j].distance = lst[i].distance
    /\ \A i, k \in DOMAIN lst : i # k => lst[i].path # lst[k].path
    /\ \A i \in DOMAIN lst : \A j \in DOMAIN scored :
           scored[j].path \notin {lst[k].path : k \in DOMAIN lst}
               => lst[i].distance <= scored[j].distance

Ascending(lst) == \A i \in 1..(Len(lst) - 1) : lst[i].distance <= lst[i + 1].distance
StrictlyAscending(lst) == \A i \in 1..(Len(lst) - 1) : lst[i].distance < lst[i + 1].distance

\* C1: a search with K >= 1 that runs to completion returns only scored
\* candidates, and every returned distance is <= the distance of every
\* scored candidate that is not returned, whatever the visiting order.
C1_ReturnsLowest ==
    (Completed /\ top_n >= 1) => LowestOf(ReturnedList)

\* a completed search that left out a candidate visited before a closer one
C1_Witness ==
    /\ Completed /\ top_n >= 1
    /\ \E j, k \in DOMAIN scored :
           /\ j < k
           /\ scored[j].distance > scored[k].distance
           /\ scored[j].path \notin ReturnedPaths
           /\ scored[k].path \in ReturnedPaths

\* C2: with a registered algorithm name, every scored candidate carries the
\* distance the registered algorithm's calculate_similarity gives for the
\* target and that candidate, and the Top-K list is ordered by it.
C2_ScoresWithRegisteredAlgorithm ==
    (algorithm \in RegisteredNames /\ pc \in {"loop", "done", "raised"}) =>
        /\ \A j \in DOMAIN scored :
               scored[j].distance =
                   RegistrySimilarity(algorithm, target, all_files[scored[j].path].img).distance
        /\ \A i \in 1..(Len(top_matches) - 1) :
               RegistrySimilarity(algorithm, target, all_files[top_matches[i].path].img).distance
                   <= RegistrySimilarity(algorithm, target,
                                         all_files[top_matches[i + 1].path].img).distance

C4_CancelledPartialList ==
    CancelledReturn =>
        /\ ret.error \notin ErrorMessages \cup {None}
        /\ ReturnedList = top_matches
        /\ LowestOf(ReturnedList)
        /\ Ascending(ReturnedList)
        /\ (processed_files >= 1 => Len(ReturnedList) >= 1)
        /\ Len(ReturnedList) <= Min(top_n, processed_files)

\* C5: with K >= 1 a completed search returns exactly min(K, processed)
\* entries, and the Top-K list never holds more than K entries.
C5_LengthIsMin ==
    top_n >= 1 =>
        /\ Len(top_matches) <= top_n
        /\ (Completed => Len(ReturnedList) = Min(top_n, processed_files))

\* a completed search that scored more candidates than it returned
C5_Witness ==
    /\ Completed /\ top_n >= 2
    /\ processed_files > top_n
    /\ Len(ReturnedList) = top_n

\* C6 as stated: adjacent entries of a returned list have strictly
\* increasing distances.
C6_StrictlyAscending ==
    (pc = "done" /\ ret.matches # NoneValue) => StrictlyAscending(ReturnedList)

\* C6 as amended: adjacent entries of a returned list have non-decreasing
\* distances (equal distances stay next to each other).
C6_Ascending ==
    (pc = "done" /\ ret.matches # NoneValue) => Ascending(ReturnedList)

\* a returned list with a tie and a strict step, not in visiting order
C6_Witness ==
    /\ pc = "done" /\ ret.matches # NoneValue
    /\ Len(ReturnedList) >= 3
    /\ \E i \in 1..(Len(ReturnedList) - 1) :
           ReturnedList[i].distance = ReturnedList[i + 1].distance
    /\ \E i \in 1..(Len(ReturnedList) - 1) :
           /\ ReturnedList[i].distance < ReturnedList[i + 1].distance
           /\ ReturnedList[i].path > ReturnedList[i + 1].path

\* C7: a search with an algorithm name that is in neither table enumerates
\* and scores no candidate and returns an error without a match list.
C7_UnknownAlgorithmFails ==
    algorithm \notin (MatcherNames \cup RegisteredNames) =>
        /\ all_files = <<>> /\ idx = 0 /\ scored = <<>>
        /\ (pc = "done" => ret.matches = NoneValue /\ ret.error \in ErrorMessages)

\* C8: a search with K < 1 traverses no candidate and returns an error
\* without a match list.
C8_NonPositiveKFails ==
    top_n < 1 =>
        /\ idx = 0 /\ scored = <<>>
        /\ (pc = "done" => ret.matches = NoneValue /\ ret.error \in ErrorMessages)

\* C9: a search whose root is missing or is not a directory examines no
\* candidate, keeps no partial state, raises nothing, and returns an error
\* without a match list.
C9_BadRootFails ==
    root_kind # "dir" =>
        /\ idx = 0 /\ scored = <<>> /\ top_matches = <<>>
        /\ processed_files = 0 /\ skipped_files = 0
        /\ pc \in {"start", "done"}
        /\ (pc = "done" => ret.matches = NoneValue /\ ret.error \in ErrorMessages)

\* a readable target searched under a missing root
C9_Witness ==
    /\ root_kind = "missing" /\ Readable(target)
    /\ pc = "done"
    /\ ret.error = "No files found in search directory"

\* C10: a completed search returns the counts of total, processed and
\* skipped files next to the match list, and processed + skipped = total.
C10_ReturnsCounts ==
    Completed =>
        /\ {"total", "processed", "skipped"} \subseteq DOMAIN ret
        /\ ret.processed + ret.skipped = ret.total

\* C11: two searches with the same query over the same files return the same
\* ordered list, whatever the order in which the walk enumerates the files
\* (candidates with equal distance are kept and ordered by their paths).
C11_WalkOrderIndependent ==
    (walk_idx # <<>> /\ walk_idx[1] = Len(walks[1]) /\ walk_idx[2] = Len(walks[2]))
        => walk_matches[1] = walk_matches[2]

\* names of different ranks differ, whatever the original filenames
DistinctRanksDistinctNames ==
    \A i, j \in 1..MaxRank : \A n, m \in {basename(p) : p \in MatchPaths} :
        i # j => DestName(i, n) # DestName(j, m)

\* C12: every match copy_skin_files copies is written under the name
\* match_{rank}_{original_filename}.png, rank being its 1-based position in
\* the ascending match list, and no two matches get the same name, equal
\* original filenames and ranks of several digits included.
C12_RankedDistinctNames ==
    /\ \A k \in DOMAIN copied_files :
           LET c == copied_files[k]
               m == matches[c.match]
           IN  /\ c.dest = DestName(c.match, basename(m.path))
               /\ \A j \in 1..(c.match - 1) : matches[j].distance <= m.distance
               /\ \E e \in output_directory : e.name = c.dest /\ e.from = m.path
    /\ \A k1, k2 \in DOMAIN copied_files :
           k1 # k2 => copied_files[k1].dest # copied_files[k2].dest
    /\ DistinctRanksDistinctNames

\* two copied matches whose original filenames are equal
C12_Witness ==
    /\ copy_pc = "done"
    /\ \E k1, k2 \in DOMAIN copied_files :
           /\ k1 < k2
           /\ matches[copied_files[k1].match].path # matches[copied_files[k2].match].path
           /\ basename(matches[copied_files[k1].match].path)
                  = basename(matches[copied_files[k2].match].path)

\* C13: after copy_skin_files(matches, dir, clear_existing=True) has returned
\* the directory holds no entry that an earlier batch left there.
C13_ClearedBeforeBatch ==
    (copy_pc = "done" /\ clear_existing) =>
        \A e \in output_directory : e.from # "earlier"

\* C14: scoring a feature bundle against itself gives combined distance 0,
\* for every name calculate_similarity has weights for and for every
\* registered algorithm class, whatever picture the bundle came from.
C14_SelfDistanceZero ==
    (/\ sc_ret # <<>>
     /\ sc_ret[1].stage = "scored"
     /\ sc_ret[1].target_features = sc_ret[1].candidate_features)
        => sc_ret[1].distance = 0

\* C15: the component weights an algorithm declares sum to 1.0, for each
\* entry of ALGORITHM_WEIGHTS and for the weights property of each
\* registered algorithm class.
C15_WeightsSumToOne ==
    sc_call # <<>> =>
        /\ sc_call[1].fn = "calculate_similarity" =>
               SumOver(DOMAIN ALGORITHM_WEIGHTS[sc_call[1].algorithm],
                       ALGORITHM_WEIGHTS[sc_call[1].algorithm]) = Percent
        /\ sc_call[1].fn = "registered" =>
               SumOver(DOMAIN RegisteredWeights[sc_call[1].algorithm],
                       RegisteredWeights[sc_call[1].algorithm]) = Percent

\* C16: with ai_perceptual or ai_mobile, a picture whose embedding is
\* unavailable still yields a bundle (it is not skipped); when the embedding
\* of the target or of the candidate is unavailable the distance is
\* 0.6 * color + 0.4 * histogram, and the metrics carry the unavailability
\* flag exactly in that case.
C16_FallbackFlagged ==
    (/\ sc_call # <<>>
     /\ sc_call[1].fn = "calculate_similarity"
     /\ sc_call[1].algorithm \in {"ai_perceptual", "ai_mobile"}
     /\ sc_ret # <<>>) =>
        LET call == sc_call[1]
            r == sc_ret[1]
            unavailable == ~(call.TORCH_AVAILABLE /\ call.extracted[1] /\ call.extracted[2])
            flag == IF call.algorithm = "ai_perceptual" THEN "ai_unavailable"
                    ELSE "mobile_unavailable"
            color_d == color_palette_distance_fast(
                           extract_dominant_colors_fast(call.target, 12),
                           extract_dominant_colors_fast(call.candidate, 12))
            hist_d == hist_distance(call.target, call.candidate, 24)
        IN  /\ r.target_features # NoneValue
            /\ r.candidate_features # NoneValue
            /\ 60 + 40 = Percent
            /\ r.stage = "scored" =>
                   /\ unavailable => r.distance = W(60, color_d) + W(40, hist_d)
                   /\ (\E m \in r.metrics : m[1] = flag) <=> unavailable

\* torch is there, the target's embedding was extracted, the candidate's
\* was not, and the two pictures differ
C16_Witness ==
    /\ sc_call # <<>> /\ sc_ret # <<>>
    /\ sc_call[1].fn = "calculate_similarity"
    /\ sc_call[1].algorithm = "ai_perceptual"
    /\ sc_call[1].TORCH_AVAILABLE
    /\ sc_call[1].extracted = <<TRUE, FALSE>>
    /\ sc_ret[1].stage = "scored"
    /\ sc_ret[1].distance > 0
    /\ <<"ai_unavailable", TRUE>> \in sc_ret[1].metrics

\* C19: both color_palette_distance_fast return exactly 1.0 when either
\* palette is empty, and neither ever returns more than 1.0.
C19_EmptyPaletteWorstCase ==
    (sc_ret # <<>> /\ sc_ret[1].stage = "distance") =>
        LET r == sc_ret[1]
            empty == sc_call[1].target.colors = {} \/ sc_call[1].candidate.colors = {}
        IN  /\ empty => (r.image_matcher = Unit /\ r.feature_extractors = Unit)
            /\ r.image_matcher <= Unit
            /\ r.feature_extractors <= Unit

\* C17: once the default algorithms are registered, no step (a call of the
\* registry's functions, or a change to a dict get_all handed out) adds,
\* replaces or removes an entry of the name -> algorithm map.
C17_RegistryReadOnly == [][registry' = registry]_registryVars

\* C18: a picture that is exactly 64x64 comes out of the converter unchanged:
\* every cell of the saved atlas equals the pixel of the input at that place.
C18_ExactSizePassthrough ==
    (conv_pc = "saved" /\ render.picture.size = <<AtlasSide, AtlasSide>>) =>
        \A cell \in Cells : skin[cell] = PixelAt(render.picture, cell[1], cell[2])

\* C20: the cancel predicate is looked at before each candidate.  A step
\* taken at the top of the loop while the predicate holds returns at once:
\* with "Cancelled by user" if a candidate is left, and in either case with
\* no candidate extracted or scored and no progress callback issued.  A
\* step taken while the predicate holds and a candidate is in progress
\* finishes that one candidate and goes back to the check or raises.
C20_CheckedBeforeEachCandidate ==
    [][(cancel_check /\ should_cancel) =>
          /\ pc = "loop" =>
                /\ pc' = "done"
                /\ idx < total_files => ret'.error = "Cancelled by user"
                /\ UNCHANGED <<idx, processed_files, skipped_files, scored,
                               top_matches, reports>>
          /\ pc = "candidate" =>
                /\ idx' = idx + 1
                /\ pc' \in {"loop", "raised"}
                /\ Len(scored') + skipped_files' = Len(scored) + skipped_files + 1]_vars

\* a search cancelled while its second candidate was in progress has
\* returned after that candidate, with files left over and progress wanted
C20_Witness ==
    /\ CancelledReturn
    /\ progress_callback
    /\ idx = 2
    /\ idx < total_files
    /\ Len(scored) + skipped_files = idx

\* C21: when top_matches already holds top_n (>= 1) entries and a candidate
\* is scored, the candidate enters the list only if its distance is strictly
\* smaller than the distance of the last (worst) entry, and then the entries
\* are the earlier ones without the worst plus the candidate; a candidate
\* with an equal or greater distance leaves the list as it was.
C21_AdmittedOnlyIfStrictlyBetter ==
    [][(top_n >= 1 /\ Len(top_matches) = top_n /\ Len(scored') = Len(scored) + 1) =>
          LET new == scored'[Len(scored')]
              worst == top_matches[top_n]
              Entries(l) == {[distance |-> l[i].distance, path |-> l[i].path] : i \in DOMAIN l}
          IN  IF new.distance < worst.distance
              THEN /\ Len(top_matches') = top_n
                   /\ Entries(top_matches') =
                          Entries(SubSeq(top_matches, 1, top_n - 1)) \cup {new}
              ELSE top_matches' = top_matches]_vars

\* a list that was full has met a candidate strictly better than one of its
\* entries, and the candidate is now in the list
C21_Witness ==
    /\ top_n >= 1
    /\ Len(scored) = top_n + 1
    /\ LET new == scored[Len(scored)]
       IN  /\ \E i \in 1..top_n : new.distance < scored[i].distance
           /\ \E i \in DOMAIN top_matches : top_matches[i].path = new.path

\* the reports of the candidate loop: those after the three that precede it
\* (lines 38, 51 and 61)
LoopReports == SubSeq(reports, 4, Len(reports))

\* C22: in a search that has run to completion with a progress callback, the
\* reports of the candidate loop have strictly increasing 'current' values,
\* none above 'total'; the first is at most one update interval after the
\* start and each next one at most one interval after the one before; the
\* last report has current = total.
C22_ProgressCadence ==
    (pc = "done" /\ ret.error = None /\ progress_callback) =>
        /\ Len(LoopReports) >= 1
        /\ LoopReports[Len(LoopReports)] = <<total_files, total_files>>
        /\ LoopReports[1][1] <= update_interval
        /\ \A i \in DOMAIN LoopReports :
              /\ LoopReports[i][1] <= LoopReports[i][2]
              /\ LoopReports[i][2] = total_files
              /\ i > 1 => /\ LoopReports[i - 1][1] < LoopReports[i][1]
                          /\ LoopReports[i][1] - LoopReports[i - 1][1] <= update_interval

\* a completed search whose loop reported at an interval and again, off the
\* interval, at the last candidate
C22_Witness ==
    /\ pc = "done" /\ ret.error = None /\ progress_callback
    /\ Len(LoopReports) >= 2
    /\ total_files % update_interval # 0
    /\ LoopReports[1][1] = update_interval

\* C28: a search with a progress callback is never left through an
\* exception of its progress computation, whatever time has elapsed at a
\* report, zero included.
C28_ProgressNeverAborts ==
    progress_callback => (pc # "raised" /\ exc = None)

\* C23: in extract_dominant_colors_fast the code of a quantized pixel decodes
\* to that quantized colour, two pixels with different quantized colours
\* have different codes, and so the colours returned are the quantized
\* colours of the picture.
C23_PackUnpackRoundTrip ==
    sc_ret # <<>> =>
        LET r == sc_ret[1]
        IN  /\ \A i \in DOMAIN r.pixel_codes :
                  DecodeColor(r.pixel_codes[i]) = r.pixels_quantized[i]
            /\ \A i, j \in DOMAIN r.pixel_codes :
                  r.pixels_quantized[i] # r.pixels_quantized[j] =>
                      r.pixel_codes[i] # r.pixel_codes[j]
            /\ r.colors = {r.pixels_quantized[i] : i \in DOMAIN r.pixels_quantized}

\* C30: in the atlas the converter returned, every cell of every range that
\* extract_visible_skin_regions reads holds the region the converter stored
\* at that range: no later store has overwritten any part of it.
C30_VisibleRegionsKept ==
    conv_pc = "saved" =>
        \A v \in VisibleRanges(Regions(render.picture)) :
            \A cell \in Cells :
                (v[1] <= cell[1] /\ cell[1] < v[2] /\ v[3] <= cell[2] /\ cell[2] < v[4])
                    => skin[cell] = v[5]

\* C29: in merge mode no two source files are copied to the same
\* destination name, so no copy overwrites a file copied earlier in the run.
C29_DistinctDestinations ==
    \A i, j \in DOMAIN merge.copied :
        i # j => merge.copied[i].dst # merge.copied[j].dst

\* C24: while the matching worker runs, a step that is not a step of the
\* matching operation (it changes nothing of the matcher tab's buttons and
\* worker) leaves the cancel flag and the busy flag the matching uses as
\* they are; and likewise for the copy worker and the steps that are not
\* steps of the copy operation.
C24_IndependentCancellation ==
    [][LET matching == <<gui.match_pc, gui.match_btn, gui.match_cancel_btn,
                         gui.algorithm, gui.search_result, gui.outcome>>
           matching_after == <<gui'.match_pc, gui'.match_btn, gui'.match_cancel_btn,
                               gui'.algorithm, gui'.search_result, gui'.outcome>>
           copying == <<gui.proc_pc, gui.process_btn, gui.cancel_btn, gui.proc_outcome>>
           copying_after == <<gui'.proc_pc, gui'.process_btn, gui'.cancel_btn,
                              gui'.proc_outcome>>
           flags_kept == /\ gui'.should_cancel = gui.should_cancel
                         /\ gui'.is_processing = gui.is_processing
       IN  /\ (gui.match_pc \in {"begin", "check", "candidate", "returned", "raised"}
                  /\ matching_after = matching) => flags_kept
           /\ (gui.proc_pc = "running" /\ copying_after = copying) => flags_kept]_gui

\* C25: the step with which the matching worker ends, on whichever path,
\* leaves is_processing false, the Find button enabled and the matcher
\* tab's Cancel button disabled.
C25_WorkerEndsReady ==
    [][(gui.match_pc \in {"returned", "raised"}
           /\ gui'.match_pc \notin {"returned", "raised"}) =>
          /\ ~gui'.is_processing
          /\ gui'.match_btn = "normal"
          /\ gui'.match_cancel_btn = "disabled"]_gui

\* C26: when the search examined every candidate and returned a completed,
\* non-empty list and run_matching has run to its end, the matches were
\* copied and success was reported.
C26_CompletedListIsCopied ==
    (gui.match_pc = "ended" /\ gui.search_result = "matches") => gui.outcome = "success"

\* C27: the algorithm run_matching selects is the dropdown entry's own:
\* render_to_skin and render_match for the two render entries, and
\* "balanced" for no entry but "Balanced (Default)".
C27_DropdownMapsToOwnName ==
    gui.match_pc \notin {"idle", "begin"} =>
        /\ gui.algorithm = "balanced" => gui.algorithm_choice = "Balanced (Default)"
        /\ gui.algorithm_choice = "Render to Skin (Convert+Match)" =>
               gui.algorithm = "render_to_skin"
        /\ gui.algorithm_choice = "Render Match (3D->2D)" => gui.algorithm = "render_match"

====
